---- MODULE Spec2Model ----
(***************************************************************************)
(* A model of pylogic/api.py: the client of the Saleae Logic socket        *)
(* scripting interface.  Text (requests written to the socket, responses   *)
(* read from it) is a sequence of atoms: an atom is one character          *)
(* (",", " ", newline, NUL, a digit, "-", one byte outside ASCII) or one   *)
(* word that the code only ever compares as a whole ("ACK", "NAK",         *)
(* "digital_channels", a command name, ...).  No atom is a prefix of       *)
(* another, so a text has exactly one atom sequence.  Python values are    *)
(* tagged records [t, v].                                                  *)
(***************************************************************************)
EXTENDS Integers, Sequences, FiniteSets, TLC

VARIABLES
  pc,       \* position of the caller: "idle", "recv" (blocked in sock.recv), "done"
  call,     \* the API method being executed and its arguments
  sent,     \* the requests written to the socket by sendall during this call
  data,     \* command()'s accumulation buffer
  nrecv,    \* number of sock.recv calls that returned during this call
  outcome,  \* how the call ended: a returned value or a raised exception
  wire,     \* bytes delivered to the client's socket and not yet read
  srv,      \* bytes of the current response the server has still to write
  reply,    \* the whole response the server chose for this call's request
  pending,  \* requests the server has received and not yet answered
  alien,    \* this call has read a byte that answers another call's request
  owners,   \* for each unanswered request, the thread whose current call sent
            \* it (0 once that call is over)
  tags,     \* the same for each byte of wire \o srv: whose request it answers
  client,   \* the attributes of the API object: host, port, sock
  repeats,  \* consecutive reset_active_channels calls that returned so far
  self,     \* the thread that is running
  other,    \* the call state of the thread that is not running
  lock,     \* the holder of the callers' mutex, 0 when free
  mutex     \* whether the callers hold the mutex around each call

\* the call state of the running thread
thread == <<pc, call, sent, data, nrecv, outcome, alien>>

vars == <<pc, call, sent, data, nrecv, outcome, wire, srv, reply, pending,
          alien, owners, tags, client, repeats, self, other, lock, mutex>>

\* ------------------------------------------------------------------ bounds

MaxUnread == 1
MaxRepeats == 2
MaxBlocks == 1
MaxChannels == 2
MaxRespLen == 3
MaxLines == 2
MaxTokens == 3

\* ------------------------------------------------------------------- atoms

NUL == "<NUL>"
LF == "<LF>"
SP == "<SP>"
COMMA == ","
MINUS == "-"
HiByte == "<0xE9>"

Digits == <<"0", "1", "2", "3", "4", "5", "6", "7", "8", "9">>
DigitSet == {Digits[i] : i \in 1..10}
DigitVal(a) == CHOOSE i \in 0..9 : Digits[i + 1] = a

\* sock.recv(1024)
RecvSize == 1024

\* runs of 1024, 1021 and 1020 bytes 'x': the parts of a long data line
X1024 == "<x*1024>"
X1021 == "<x*1021>"
X1020 == "<x*1020>"

\* len() of the encoded atom, in bytes
AtomLen(a) ==
  CASE a \in {"ACK", "NAK"} -> 3
    [] a = X1024 -> 1024
    [] a = X1021 -> 1021
    [] a = X1020 -> 1020
    [] a = "digital_channels" -> 16
    [] a = "analog_channels" -> 15
    [] OTHER -> 1

RECURSIVE ByteLen(_)
ByteLen(s) == IF s = <<>> THEN 0 ELSE AtomLen(Head(s)) + ByteLen(Tail(s))

\* ----------------------------------------------------------- Python values

PyNone == [t |-> "None", v |-> <<>>]
PyInt(n) == [t |-> "int", v |-> n]
PyStr(s) == [t |-> "str", v |-> s]
PyList(xs) == [t |-> "list", v |-> xs]
PyTuple(xs) == [t |-> "tuple", v |-> xs]
PyDict(d, a) == [t |-> "dict", v |-> [digital |-> d, analog |-> a]]

\* a == b for the values above (values of different types are never equal)
PyEq(a, b) == a.t = b.t /\ a.v = b.v

\* bool(x), as used by `x or y`
Truthy(x) ==
  CASE x.t = "None" -> FALSE
    [] x.t = "int" -> x.v # 0
    [] OTHER -> x.v # <<>>

RECURSIVE NatStr(_)
NatStr(n) == IF n < 10 THEN <<Digits[n + 1]>>
             ELSE Append(NatStr(n \div 10), Digits[(n % 10) + 1])

\* str(x) for the argument types the callers pass
Str(x) ==
  CASE x.t = "None" -> <<"None">>
    [] x.t = "int" -> IF x.v < 0 THEN <<MINUS>> \o NatStr(-x.v) ELSE NatStr(x.v)
    [] OTHER -> x.v

RECURSIVE Strip(_)
Strip(s) ==
  IF s = <<>> THEN s
  ELSE IF Head(s) \in {SP, LF} THEN Strip(Tail(s))
  ELSE IF s[Len(s)] \in {SP, LF} THEN Strip(SubSeq(s, 1, Len(s) - 1))
  ELSE s

RECURSIVE DigitsVal(_)
DigitsVal(s) == IF s = <<>> THEN 0
                ELSE 10 * DigitsVal(SubSeq(s, 1, Len(s) - 1)) + DigitVal(s[Len(s)])

IsDigits(s) == s # <<>> /\ \A i \in 1..Len(s) : s[i] \in DigitSet

\* int(x): [ok, v] on success, [ok, exc] when it raises
int(x) ==
  CASE x.t = "int" -> [ok |-> TRUE, v |-> x.v, exc |-> ""]
    [] x.t = "str" ->
         LET s == Strip(x.v)
             neg == s # <<>> /\ Head(s) = MINUS
             d == IF neg THEN Tail(s) ELSE s
         IN IF IsDigits(d)
            THEN [ok |-> TRUE, v |-> IF neg THEN -DigitsVal(d) ELSE DigitsVal(d), exc |-> ""]
            ELSE [ok |-> FALSE, v |-> 0, exc |-> "ValueError"]
    [] OTHER -> [ok |-> FALSE, v |-> 0, exc |-> "TypeError"]

\* x in tup
PyIn(x, tup) == \E i \in 1..Len(tup) : PyEq(x, tup[i])

\* -------------------------------------------------------------------- text

RECURSIVE SplitAcc(_, _, _)
SplitAcc(s, sep, cur) ==
  IF s = <<>> THEN <<cur>>
  ELSE IF Len(s) >= Len(sep) /\ SubSeq(s, 1, Len(sep)) = sep
       THEN <<cur>> \o SplitAcc(SubSeq(s, Len(sep) + 1, Len(s)), sep, <<>>)
       ELSE SplitAcc(Tail(s), sep, Append(cur, Head(s)))

\* s.split(sep)
Split(s, sep) == SplitAcc(s, sep, <<>>)

RECURSIVE Join(_, _)
\* sep.join(parts)
Join(sep, parts) ==
  IF parts = <<>> THEN <<>>
  ELSE IF Len(parts) = 1 THEN parts[1]
  ELSE parts[1] \o sep \o Join(sep, Tail(parts))

IsAscii(s) == \A i \in 1..Len(s) : s[i] # HiByte

\* ---------------------------------------------------------------- outcomes

NoOutcome == [kind |-> "none", exc |-> "", val |-> PyNone]
Raise(e) == [kind |-> "raise", exc |-> e, val |-> PyNone]
Return(x) == [kind |-> "return", exc |-> "", val |-> x]

\* ------------------------------------------------------------- API.command

\* ','.join(str(arg) for arg in args) + '\0'
command_request(args) ==
  Join(<<COMMA>>, [i \in 1..Len(args) |-> Str(args[i])]) \o <<NUL>>

\* StatusOf taking the first line: lines.pop(0)
StatusOfFirst(all) == all[1]

\* status = lines.pop(-1): the last line
StatusOf(all) == all[Len(all)]

\* what lines.pop(-1) leaves in lines
DataLines(all) == SubSeq(all, 1, Len(all) - 1)

\* [line.split(', ') for line in lines]
FieldsOf(lines) ==
  [i \in 1..Len(lines) |->
     LET f == Split(lines[i], <<COMMA, SP>>)
     IN PyList([j \in 1..Len(f) |-> PyStr(f[j])])]

\* the body of `if lines:` : what command() returns for a non-empty list of
\* data lines
ShapeOf(fields, multiline) ==
  IF multiline THEN Return(PyList(fields))
  ELSE IF Len(fields) # 1 THEN Raise("AssertionError")
  ELSE Return(fields[1])

\* command(), from data.decode('ascii') to its return
command_response(buf, multiline) ==
  IF ~IsAscii(buf) THEN Raise("UnicodeDecodeError")
  ELSE LET all == Split(buf, <<LF>>)
           status == StatusOf(all)
           lines == DataLines(all)
       IN IF status = <<"NAK">> THEN Raise("CommandError")
          ELSE IF status # <<"ACK">> THEN Raise("InvalidResponse")
          ELSE IF lines # <<>> THEN ShapeOf(FieldsOf(lines), multiline)
          ELSE Return(PyNone)

\* ------------------------------------------- results of the API operations

\* RatePairs with the two fields of a line taken in the other order
RatePairsSwapped(resp) ==
  IF resp.t = "None" THEN Raise("TypeError")
  ELSE IF \E i \in 1..Len(resp.v) :
            \/ Len(resp.v[i].v) # 2
            \/ ~int(resp.v[i].v[1]).ok
            \/ ~int(resp.v[i].v[2]).ok
       THEN Raise("ValueError")
  ELSE Return(PyList([i \in 1..Len(resp.v) |->
         PyTuple(<<PyInt(int(resp.v[i].v[2]).v), PyInt(int(resp.v[i].v[1]).v)>>)]))

\* [(int(digital), int(analog)) for digital, analog in resp]
RatePairs(resp) ==
  IF resp.t = "None" THEN Raise("TypeError")
  ELSE IF \E i \in 1..Len(resp.v) :
            \/ Len(resp.v[i].v) # 2
            \/ ~int(resp.v[i].v[1]).ok
            \/ ~int(resp.v[i].v[2]).ok
       THEN Raise("ValueError")
  ELSE Return(PyList([i \in 1..Len(resp.v) |->
         PyTuple(<<PyInt(int(resp.v[i].v[1]).v), PyInt(int(resp.v[i].v[2]).v)>>)]))

\* [(label, int(idx)) for label, idx in resp]
AnalyzerPairs(resp) ==
  IF resp.t = "None" THEN Raise("TypeError")
  ELSE IF \E i \in 1..Len(resp.v) :
            Len(resp.v[i].v) # 2 \/ ~int(resp.v[i].v[2]).ok
       THEN Raise("ValueError")
  ELSE Return(PyList([i \in 1..Len(resp.v) |->
         PyTuple(<<resp.v[i].v[1], PyInt(int(resp.v[i].v[2]).v)>>)]))

\* FirstInt without the conversion: resp[0]
FirstField(resp) ==
  IF resp.t = "None" THEN Raise("TypeError") ELSE Return(resp.v[1])

\* int(resp[0])
FirstInt(resp) ==
  IF resp.t = "None" THEN Raise("TypeError")
  ELSE LET r == int(resp.v[1])
       IN IF r.ok THEN Return(PyInt(r.v)) ELSE Raise(r.exc)

\* NextCurrent with the two markers exchanged
NextCurrentSwapped(el, current) ==
  IF el = <<"digital_channels">> THEN "analog"
  ELSE IF el = <<"analog_channels">> THEN "digital"
  ELSE current

\* the list `current` is bound to after a marker token
NextCurrent(el, current) ==
  IF el = <<"digital_channels">> THEN "digital"
  ELSE IF el = <<"analog_channels">> THEN "analog"
  ELSE current

RECURSIVE ChannelLoop(_, _, _, _)
\* the for loop of get_active_channels over the tokens still to visit
ChannelLoop(els, digital, analog, current) ==
  IF els = <<>> THEN Return(PyDict(digital, analog))
  ELSE LET el == Head(els).v
       IN IF el = <<"digital_channels">> \/ el = <<"analog_channels">>
          THEN ChannelLoop(Tail(els), digital, analog, NextCurrent(el, current))
          ELSE IF current = "None" THEN Raise("AttributeError")
          ELSE LET r == int(Head(els))
               IN IF ~r.ok THEN Raise(r.exc)
                  ELSE IF current = "digital"
                       THEN ChannelLoop(Tail(els), Append(digital, r.v), analog, current)
                       ELSE ChannelLoop(Tail(els), digital, Append(analog, r.v), current)

ActiveChannels(resp) ==
  IF resp.t = "None" THEN Raise("TypeError")
  ELSE ChannelLoop(resp.v, <<>>, <<>>, "None")

\* the operations that call command(..., multiline=True)
Multiline(name) ==
  name \in {"get_available_sample_rates", "get_connected_devices", "get_analyzers",
            "export_analyzers"}

\* the operations that discard what command() returns
Discards(name) ==
  name \in {"set_number_of_samples", "select_active_device", "capture",
            "set_sample_rate", "set_active_channels", "reset_active_channels",
            "capture_to_file", "save_to_file", "load_from_file", "export_data"}

\* what the operation does with the value command() returned
Decoded(name, resp) ==
  CASE name = "get_available_sample_rates" -> RatePairs(resp)
    [] name = "get_analyzers" -> AnalyzerPairs(resp)
    [] name \in {"get_performance_option", "get_capture_pretrigger_buffer_size"} ->
         FirstInt(resp)
    [] name = "get_active_channels" -> ActiveChannels(resp)
    [] Discards(name) -> Return(PyNone)
    [] OTHER -> Return(resp)

\* the operation's outcome once command() has read buf
Complete(name, buf) ==
  LET r == command_response(buf, Multiline(name))
  IN IF r.kind = "raise" THEN r ELSE Decoded(name, r.val)

\* export_analyzers after command(): `if pipe_result: return resp`, else None
Piped(args, resp) == IF Truthy(args[3]) THEN Return(resp) ELSE Return(PyNone)

\* the outcome of the call c once command() has read buf
Result(c, buf) ==
  LET r == Complete(c.name, buf)
  IN IF c.name = "export_analyzers" /\ r.kind = "return"
     THEN Piped(c.args, r.val) ELSE r

\* --------------------------------------------------- the steps of one call

NoCall == [name |-> "", args |-> <<>>]

\* an API method is entered with these arguments; the caller makes a new call
\* only while at most MaxUnread earlier requests and atoms of earlier responses
\* are still unanswered or unread
Enter(name, args) ==
  /\ pc = "idle"
  /\ pending + Len(wire) + Len(srv) <= MaxUnread
  /\ mutex => lock = 0
  /\ lock' = IF mutex THEN self ELSE lock
  /\ call' = [name |-> name, args |-> args]
  /\ alien' = FALSE
  /\ repeats' = IF name = "reset_active_channels" THEN repeats ELSE 0
  /\ UNCHANGED <<client, self, other, mutex>>

\* the method raises before it reaches the socket
RaiseLocal(exc) ==
  /\ pc' = "done"
  /\ outcome' = Raise(exc)
  /\ sent' = <<>>
  /\ data' = <<>>
  /\ nrecv' = 0
  /\ UNCHANGED <<wire, srv, reply, pending, owners, tags>>

\* command(*args) up to the first sock.recv: encode, sendall, data = b''
command(args) ==
  LET s == command_request(args)
  IN IF ~IsAscii(s) THEN RaiseLocal("UnicodeEncodeError")
     ELSE /\ sent' = <<s>>
          /\ pending' = pending + 1
          /\ pc' = "recv"
          /\ data' = <<>>
          /\ nrecv' = 0
          /\ outcome' = NoOutcome
          /\ owners' = Append(owners, self)
          /\ UNCHANGED <<wire, srv, reply, tags>>

Name(n) == PyStr(<<n>>)

\* channels = [ch or '' for ch in channels]
OrEmpty(ch) == IF Truthy(ch) THEN ch ELSE PyStr(<<>>)

TriggerTuple ==
  <<PyStr(<<>>), Name("high"), Name("low"), Name("negedge"), Name("posedge")>>

set_trigger(channels) ==
  /\ Enter("set_trigger", channels)
  /\ LET chs == [i \in 1..Len(channels) |-> OrEmpty(channels[i])]
     IN IF \E i \in 1..Len(chs) : ~PyIn(chs[i], TriggerTuple)
        THEN RaiseLocal("ArgumentError")
        ELSE command(<<Name("set_trigger")>> \o chs)

\* try: x = int(x) / except ValueError: raise ArgumentError
IntArgument(x) ==
  LET r == int(x)
  IN IF r.ok THEN r
     ELSE IF r.exc = "ValueError" THEN [r EXCEPT !.exc = "ArgumentError"]
     ELSE r

set_number_of_samples(samples) ==
  /\ Enter("set_number_of_samples", <<samples>>)
  /\ LET r == IntArgument(samples)
     IN IF ~r.ok THEN RaiseLocal(r.exc)
        ELSE command(<<Name("set_num_samples"), PyInt(r.v)>>)

get_available_sample_rates ==
  /\ Enter("get_available_sample_rates", <<>>)
  /\ command(<<Name("get_all_sample_rates")>>)

get_performance_option ==
  /\ Enter("get_performance_option", <<>>)
  /\ command(<<Name("get_performance_option")>>)

\* PerformanceTuple without one of its options
PerformanceTupleShort == <<PyInt(20), PyInt(25), PyInt(50), PyInt(100)>>

PerformanceTuple == <<PyInt(20), PyInt(25), PyInt(33), PyInt(50), PyInt(100)>>

set_performance_option(value) ==
  /\ Enter("set_performance_option", <<value>>)
  /\ IF ~PyIn(value, PerformanceTuple)
     THEN RaiseLocal("ArgumentError")
     ELSE command(<<Name("set_performance_option"), value>>)

get_capture_pretrigger_buffer_size ==
  /\ Enter("get_capture_pretrigger_buffer_size", <<>>)
  /\ command(<<Name("get_capture_pretrigger_buffer_size")>>)

PretriggerTuple ==
  <<PyInt(1000000), PyInt(10000000), PyInt(100000000), PyInt(1000000000)>>

set_capture_pretrigger_buffer_size(value) ==
  /\ Enter("set_capture_pretrigger_buffer_size", <<value>>)
  /\ IF ~PyIn(value, PretriggerTuple)
     THEN RaiseLocal("ArgumentError")
     ELSE command(<<Name("set_capture_pretrigger_buffer_size"), value>>)

get_connected_devices ==
  /\ Enter("get_connected_devices", <<>>)
  /\ command(<<Name("get_connected_devices")>>)

select_active_device(device_number) ==
  /\ Enter("select_active_device", <<device_number>>)
  /\ LET r == IntArgument(device_number)
     IN IF ~r.ok THEN RaiseLocal(r.exc)
        ELSE command(<<Name("select_active_device"), PyInt(r.v)>>)

get_active_channels ==
  /\ Enter("get_active_channels", <<>>)
  /\ command(<<Name("get_active_channels")>>)

capture ==
  /\ Enter("capture", <<>>)
  /\ command(<<Name("capture")>>)

is_processing_complete ==
  /\ Enter("is_processing_complete", <<>>)
  /\ command(<<Name("is_processing_complete")>>)

get_analyzers ==
  /\ Enter("get_analyzers", <<>>)
  /\ command(<<Name("get_analyzers")>>)

set_sample_rate(digital_sample_rate, analog_sample_rate) ==
  /\ Enter("set_sample_rate", <<digital_sample_rate, analog_sample_rate>>)
  /\ command(<<Name("set_sample_rate"), digital_sample_rate, analog_sample_rate>>)

\* args = ['digital_channels'] + digital + ['analog_channels'] + analog
ChannelArguments(digital_channels, analog_channels) ==
  <<Name("digital_channels")>> \o digital_channels
    \o <<Name("analog_channels")>> \o analog_channels

set_active_channels(digital_channels, analog_channels) ==
  /\ Enter("set_active_channels", <<PyList(digital_channels), PyList(analog_channels)>>)
  /\ command(<<Name("set_active_channels")>>
               \o ChannelArguments(digital_channels, analog_channels))

\* reset_active_channels sending another command name
reset_channels ==
  /\ Enter("reset_active_channels", <<>>)
  /\ repeats < MaxRepeats
  /\ command(<<Name("reset_channels")>>)

reset_active_channels ==
  /\ Enter("reset_active_channels", <<>>)
  /\ repeats < MaxRepeats
  /\ command(<<Name("reset_active_channels")>>)

capture_to_file(path) ==
  /\ Enter("capture_to_file", <<path>>)
  /\ command(<<Name("capture_to_file"), path>>)

\* get_inputs passing the command on to the software
get_inputs_command ==
  /\ Enter("get_inputs", <<>>)
  /\ command(<<Name("get_inputs")>>)

get_inputs ==
  /\ Enter("get_inputs", <<>>)
  /\ RaiseLocal("NotImplementedError")

save_to_file(path) ==
  /\ Enter("save_to_file", <<path>>)
  /\ command(<<Name("save_to_file"), path>>)

load_from_file(path) ==
  /\ Enter("load_from_file", <<path>>)
  /\ command(<<Name("load_from_file"), path>>)

export_data(path) ==
  /\ Enter("export_data", <<path>>)
  /\ command(<<Name("export_data"), path>>)

export_analyzers(index, path, pipe_result) ==
  /\ Enter("export_analyzers", <<index, path, pipe_result>>)
  /\ command(<<Name("export_analyzers"), index, path>>
               \o (IF Truthy(pipe_result) THEN <<Name("extra_parameter")>> ELSE <<>>))

RECURSIVE TakeBytes(_, _)
\* the longest prefix of s of at most n bytes
TakeBytes(s, n) ==
  IF s = <<>> \/ AtomLen(Head(s)) > n THEN <<>>
  ELSE <<Head(s)>> \o TakeBytes(Tail(s), n - AtomLen(Head(s)))

\* the loop ending after every read: len(chunk) <= 1024
ShortOrFull(chunk) == ByteLen(chunk) <= RecvSize

\* if len(chunk) < 1024: break
Short(chunk) == ByteLen(chunk) < RecvSize

\* one pass of the while loop of command(): chunk = sock.recv(1024) returns
\* the bytes that have arrived; a chunk shorter than 1024 bytes ends the loop
\* and the response is decoded
recv ==
  /\ pc = "recv"
  /\ wire # <<>>
  /\ LET chunk == TakeBytes(wire, RecvSize)
         buf == data \o chunk
     IN /\ wire' = SubSeq(wire, Len(chunk) + 1, Len(wire))
        /\ data' = buf
        /\ nrecv' = nrecv + 1
        /\ tags' = SubSeq(tags, Len(chunk) + 1, Len(tags))
        /\ alien' = (alien \/ \E i \in 1..Len(chunk) : tags[i] # self)
        /\ IF Short(chunk)
           THEN pc' = "done" /\ outcome' = Result(call, buf)
           ELSE pc' = "recv" /\ outcome' = outcome
  /\ UNCHANGED <<call, sent, srv, reply, pending, owners>>
  /\ UNCHANGED <<client, repeats, self, other, lock, mutex>>

\* the owners q once the current call of thread t is over
Disown(q, t) == [i \in 1..Len(q) |-> IF q[i] = t THEN 0 ELSE q[i]]

\* the caller takes the outcome and is ready for its next call
Finish ==
  /\ pc = "done"
  /\ pc' = "idle"
  /\ call' = NoCall
  /\ sent' = <<>>
  /\ data' = <<>>
  /\ nrecv' = 0
  /\ outcome' = NoOutcome
  /\ reply' = <<>>
  /\ alien' = FALSE
  /\ owners' = Disown(owners, self)
  /\ tags' = Disown(tags, self)
  /\ lock' = IF mutex THEN 0 ELSE lock
  /\ repeats' = IF call.name = "reset_active_channels" /\ outcome.kind = "return"
                THEN repeats + 1 ELSE 0
  /\ UNCHANGED <<wire, srv, pending, client, self, other, mutex>>

\* -------------------------------------------------------------- the server

\* the server reads one request and chooses its response
ServerReply(r) ==
  /\ pending > 0
  /\ srv = <<>>
  /\ pending' = pending - 1
  /\ srv' = r
  /\ reply' = r
  /\ owners' = Tail(owners)
  /\ tags' = tags \o [i \in 1..Len(r) |-> Head(owners)]
  /\ UNCHANGED <<thread, wire, client, repeats, self, other, lock, mutex>>

\* the next k atoms of the response reach the client's socket as one segment
ServerSend(k) ==
  /\ k \in 1..Len(srv)
  /\ wire' = wire \o SubSeq(srv, 1, k)
  /\ srv' = SubSeq(srv, k + 1, Len(srv))
  /\ UNCHANGED <<thread, reply, pending, owners, tags>>
  /\ UNCHANGED <<client, repeats, self, other, lock, mutex>>

\* the server reads one request and its whole response reaches the client's
\* socket as one segment
ServerReplyWhole(r) ==
  /\ pending > 0
  /\ srv = <<>>
  /\ pending' = pending - 1
  /\ wire' = wire \o r
  /\ reply' = r
  /\ owners' = Tail(owners)
  /\ tags' = tags \o [i \in 1..Len(r) |-> Head(owners)]
  /\ UNCHANGED <<thread, srv, client, repeats, self, other, lock, mutex>>

\* ------------------------------------------------- arguments and responses

RECURSIVE SeqsUpTo(_, _)
\* the sequences over S of length 0..n
SeqsUpTo(S, n) ==
  IF n = 0 THEN {<<>>}
  ELSE LET shorter == SeqsUpTo(S, n - 1)
       IN shorter \cup {Append(q, x) : q \in {p \in shorter : Len(p) = n - 1}, x \in S}

TriggerModes ==
  {PyNone, PyStr(<<>>), Name("high"), Name("low"), Name("negedge"), Name("posedge"),
   Name("rising"), PyInt(0)}

TriggerArgs == SeqsUpTo(TriggerModes, MaxChannels)

IntArgs ==
  {PyInt(1000), PyInt(0), PyStr(<<"1", "2">>), PyStr(<<SP, "7">>), PyStr(<<"x">>),
   PyStr(<<>>), PyNone}

MaxPerformance == 101

PerformanceArgs ==
  {PyInt(n) : n \in 0..MaxPerformance} \cup {PyNone, PyStr(<<"2", "0">>)}

PretriggerArgs ==
  {PyInt(n) : n \in {0, 999999, 1000000, 1000001, 10000000, 100000000,
                     1000000000, 1000000001}}
    \cup {PyNone, PyStr(<<"1", "0", "0", "0", "0", "0", "0">>)}

\* sample rates as the callers pass them
RateArgs == {PyInt(1), PyInt(4)}

\* channel lists as the callers pass them
ChannelArgs == SeqsUpTo({PyInt(0), PyInt(1)}, MaxChannels)
AnalogArgs == {<<>>, <<PyInt(0)>>}

\* file paths: a plain one, one with a comma, one with a NUL, one with a
\* character outside ASCII
Paths ==
  {PyStr(<<"f">>), PyStr(<<"a", COMMA, "b">>), PyStr(<<"a", NUL, "b">>),
   PyStr(<<HiByte>>)}

\* pipe_result: False and True (the integers 0 and 1 in Python)
PipeArgs == {PyInt(0), PyInt(1)}

BasicResponses ==
  {<<"ACK">>, <<"NAK">>, <<"1", LF, "ACK">>}

\* responses of any shape: every text of up to MaxRespLen of these atoms
GarbageAtoms == {"ACK", "NAK", LF, "1", HiByte}

Garbage == SeqsUpTo(GarbageAtoms, MaxRespLen) \ {<<>>}

\* data lines as the analyzer application writes them
IntLines == {NatStr(n) : n \in {33, 100}}

RateLine(d, a) == NatStr(d) \o <<COMMA, SP>> \o NatStr(a)

RateLines == {RateLine(d, 500) : d \in {1200, 2400}}

AnalyzerLines == {<<"SPI", COMMA, SP, "1">>}

ShortLines == IntLines \cup RateLines \cup AnalyzerLines

ChannelTokens == {<<"digital_channels">>, <<"analog_channels">>, <<"0">>, <<"1">>}

TokenSeqs == SeqsUpTo(ChannelTokens, MaxTokens) \ {<<>>}

ChannelLine(ts) == Join(<<COMMA, SP>>, ts)

ExampleTokens ==
  <<<<"digital_channels">>, <<"0">>, <<"1">>, <<"analog_channels">>, <<"2">>>>

ChannelLines == {ChannelLine(ts) : ts \in TokenSeqs \cup {ExampleTokens}}

LineSeqs == SeqsUpTo(ShortLines, MaxLines)

\* the data lines followed by the status line
Framed(ls, status) == Join(<<LF>>, Append(ls, status))

Responses ==
  Garbage
    \cup {Framed(ls, st) : ls \in LineSeqs, st \in {<<"ACK">>, <<"NAK">>}}
    \cup {Framed(ls, <<"ACK">>) \o <<LF>> : ls \in LineSeqs}
    \cup {Framed(<<l>>, <<"ACK">>) : l \in ChannelLines}

\* ---------------------------------------------------------- specifications

\* self.host, self.port, self.sock after __init__
NewClient == [host |-> "127.0.0.1", port |-> 10429, sock |-> "connected"]

\* the call state of a thread that has not called yet
IdleThread == <<"idle", NoCall, <<>>, <<>>, 0, NoOutcome, FALSE>>

\* the state after construction; m: the callers serialize their calls
Start(m) ==
  /\ pc = IdleThread[1]
  /\ call = IdleThread[2]
  /\ sent = IdleThread[3]
  /\ data = IdleThread[4]
  /\ nrecv = IdleThread[5]
  /\ outcome = IdleThread[6]
  /\ alien = IdleThread[7]
  /\ wire = <<>>
  /\ srv = <<>>
  /\ reply = <<>>
  /\ pending = 0
  /\ owners = <<>>
  /\ tags = <<>>
  /\ client = NewClient
  /\ repeats = 0
  /\ self = 1
  /\ other = IdleThread
  /\ lock = 0
  /\ mutex = m

Init == Start(FALSE)

Next ==
  \/ \E x \in IntArgs : set_number_of_samples(x)
  \/ \E chs \in TriggerArgs : set_trigger(chs)
  \/ get_available_sample_rates
  \/ get_performance_option
  \/ \E x \in PerformanceArgs : set_performance_option(x)
  \/ get_capture_pretrigger_buffer_size
  \/ \E x \in PretriggerArgs : set_capture_pretrigger_buffer_size(x)
  \/ get_connected_devices
  \/ \E x \in IntArgs : select_active_device(x)
  \/ get_active_channels
  \/ capture
  \/ is_processing_complete
  \/ get_analyzers
  \/ \E d \in RateArgs, a \in RateArgs : set_sample_rate(d, a)
  \/ \E d \in ChannelArgs, a \in AnalogArgs : set_active_channels(d, a)
  \/ reset_active_channels
  \/ \E path \in Paths : capture_to_file(path)
  \/ get_inputs
  \/ \E path \in Paths : save_to_file(path)
  \/ \E path \in Paths : load_from_file(path)
  \/ \E path \in Paths : export_data(path)
  \/ \E i \in {PyInt(0)}, path \in Paths, p \in PipeArgs : export_analyzers(i, path, p)
  \/ recv
  \/ Finish
  \/ \E r \in BasicResponses : ServerReply(r)
  \/ \E k \in 1..MaxRespLen : ServerSend(k)

\* every caller, a server that answers with any of a few short responses,
\* delivered in any segmentation
Spec == Init /\ [][Next]_vars

NextDecode ==
  \/ set_trigger(<<Name("high"), PyNone>>)
  \/ set_number_of_samples(PyInt(1000))
  \/ get_available_sample_rates
  \/ get_performance_option
  \/ set_performance_option(PyInt(20))
  \/ get_capture_pretrigger_buffer_size
  \/ set_capture_pretrigger_buffer_size(PyInt(1000000))
  \/ get_connected_devices
  \/ select_active_device(PyInt(1))
  \/ get_active_channels
  \/ capture
  \/ is_processing_complete
  \/ get_analyzers
  \/ reset_active_channels
  \/ get_inputs
  \/ \E p \in PipeArgs : export_analyzers(PyInt(0), PyStr(<<"f">>), p)
  \/ recv
  \/ Finish
  \/ \E r \in Responses : ServerReplyWhole(r)

\* one caller with valid arguments, a server that answers with any response
\* of Responses, delivered whole
SpecDecode == Init /\ [][NextDecode]_vars

RECURSIVE Blocks(_)
\* a data line of k times 1024 bytes
Blocks(k) == IF k = 0 THEN <<>> ELSE <<X1024>> \o Blocks(k - 1)

\* responses of 3, 4, 1024 and 1028 bytes and the same after up to MaxBlocks
\* more blocks of 1024 bytes
LongResponses ==
  {Blocks(k) \o t : k \in 0..MaxBlocks,
                   t \in {<<"ACK">>, <<LF, "ACK">>, <<X1021, "ACK">>,
                          <<X1020, LF, "ACK">>, <<X1024, LF, "ACK">>}}

\* nothing of an earlier exchange is unanswered or unread
Quiet == pending = 0 /\ wire = <<>> /\ srv = <<>>

NextLong ==
  \/ Quiet /\ capture
  \/ Quiet /\ get_connected_devices
  \/ Quiet /\ is_processing_complete
  \/ recv
  \/ Finish
  \/ \E r \in LongResponses : ServerReply(r)
  \/ \E k \in 1..MaxRespLen : ServerSend(k)

\* a caller that calls on a quiet connection, a server that answers with
\* responses around the size of recv's buffer, delivered in any segmentation
SpecLong == Init /\ [][NextLong]_vars

\* SpecLong where a read returns once bytes have arrived and the server gets
\* to answer and to send what it has answered
FairSpecLong ==
  /\ SpecLong
  /\ WF_vars(recv)
  /\ WF_vars(\E r \in LongResponses : ServerReply(r))
  /\ WF_vars(\E k \in 1..MaxRespLen : ServerSend(k))

\* the scheduler runs the other thread: a thread can lose the processor
\* between any two steps of its call
Switch ==
  /\ pc' = other[1]
  /\ call' = other[2]
  /\ sent' = other[3]
  /\ data' = other[4]
  /\ nrecv' = other[5]
  /\ outcome' = other[6]
  /\ alien' = other[7]
  /\ other' = thread
  /\ self' = 3 - self
  /\ UNCHANGED <<wire, srv, reply, pending, owners, tags, client, repeats, lock, mutex>>

NextThreads ==
  \/ capture
  \/ get_performance_option
  \/ recv
  \/ Finish
  \/ Switch
  \/ \E r \in BasicResponses : ServerReply(r)
  \/ \E k \in 1..MaxRespLen : ServerSend(k)

\* two threads that call one API object with nothing between them
SpecThreads == Start(FALSE) /\ [][NextThreads]_vars

\* two threads that call one API object, each call made holding one mutex
SpecMutex == Start(TRUE) /\ [][NextThreads]_vars

\* ------------------------------------------------------------------ claims

\* the text s ends in the line tok: tok is all of it, or follows a newline
EndsInToken(s, tok) ==
  /\ Len(s) >= 1
  /\ s[Len(s)] = tok
  /\ Len(s) = 1 \/ s[Len(s) - 1] = LF

ValidMode(m) ==
  \/ m.t = "None"
  \/ m.t = "str" /\ m.v \in {<<>>, <<"high">>, <<"low">>, <<"negedge">>, <<"posedge">>}

\* the value is an integer or, of the texts of IntArgs, the text of one
ParsesAsInteger(x) ==
  \/ x.t = "int"
  \/ x.t = "str" /\ Strip(x.v) \in {<<"1", "2">>, <<"7">>}

\* the current call was given an argument its operation does not accept
InvalidArgument ==
  \/ /\ call.name = "set_trigger"
     /\ \E i \in 1..Len(call.args) : ~ValidMode(call.args[i])
  \/ /\ call.name \in {"set_number_of_samples", "select_active_device"}
     /\ ~ParsesAsInteger(call.args[1])
  \/ /\ call.name = "set_performance_option"
     /\ ~(call.args[1].t = "int" /\ call.args[1].v \in {20, 25, 33, 50, 100})
  \/ /\ call.name = "set_capture_pretrigger_buffer_size"
     /\ ~(call.args[1].t = "int"
          /\ call.args[1].v \in {1000000, 10000000, 100000000, 1000000000})

\* the call failed with ArgumentError without touching the socket
FailedFast ==
  /\ pc = "done"
  /\ outcome = Raise("ArgumentError")
  /\ sent = <<>>
  /\ nrecv = 0

\* C2: every call of a validating operation with an invalid argument, values
\* that do not parse as an integer included, fails with ArgumentError and
\* neither writes to nor reads from the socket.
C2_InvalidArgumentFailsFast ==
  (pc # "idle" /\ InvalidArgument) => FailedFast

RECURSIVE TriggerFields(_)
\* the modes of a valid trigger call, each after a comma, None as blank
TriggerFields(ms) ==
  IF ms = <<>> THEN <<>>
  ELSE <<COMMA>> \o (IF Head(ms).t = "None" THEN <<>> ELSE Head(ms).v)
         \o TriggerFields(Tail(ms))

\* C3: set_trigger with modes of {empty, high, low, negedge, posedge} (None
\* counting as empty) sends exactly one request, 'set_trigger' and the modes
\* joined by commas in channel order, and raises no local error; with any
\* mode outside that set it fails with ArgumentError before any network I/O.
C3_TriggerValidated ==
  (pc # "idle" /\ call.name = "set_trigger") =>
     IF \A i \in 1..Len(call.args) : ValidMode(call.args[i])
     THEN sent = <<<<"set_trigger">> \o TriggerFields(call.args) \o <<NUL>>>>
     ELSE FailedFast

\* the decimal text of the performance options
PerformanceText(n) ==
  CASE n = 20 -> <<"2", "0">>
    [] n = 25 -> <<"2", "5">>
    [] n = 33 -> <<"3", "3">>
    [] n = 50 -> <<"5", "0">>
    [] n = 100 -> <<"1", "0", "0">>

\* C4: for every integer v of {20, 25, 33, 50, 100} set_performance_option(v)
\* sends 'set_performance_option,v' and, the response being ACK, succeeds;
\* for every other integer it fails with ArgumentError (and sends nothing).
C4_PerformanceOption ==
  (pc # "idle" /\ call.name = "set_performance_option" /\ call.args[1].t = "int") =>
     LET v == call.args[1].v
     IN IF v \in {20, 25, 33, 50, 100}
        THEN /\ sent = <<<<"set_performance_option", COMMA>> \o PerformanceText(v)
                          \o <<NUL>>>>
             /\ (pc = "done" /\ data = <<"ACK">>) => outcome = Return(PyNone)
        ELSE FailedFast

C4_Witness ==
  /\ pc = "done"
  /\ call = [name |-> "set_performance_option", args |-> <<PyInt(33)>>]
  /\ sent = <<<<"set_performance_option", COMMA, "3", "3", NUL>>>>
  /\ data = <<"ACK">>
  /\ outcome = Return(PyNone)

\* C7: however the bytes of a response are split over successive recv
\* results, the buffer command() decodes is the complete response and none
\* of its bytes is left unread when the call returns.
C7_FullResponseRead ==
  (pc = "done" /\ nrecv > 0) =>
     /\ data = reply
     /\ wire = <<>>
     /\ srv = <<>>

\* integers and their decimal text
IntTexts ==
  {[text |-> <<"3", "3">>, val |-> 33], [text |-> <<"1", "0", "0">>, val |-> 100]}

\* get_performance_option has sent its request and nothing else
PerformanceRequested ==
  /\ pc # "idle"
  /\ call.name = "get_performance_option"
  /\ sent = <<<<"get_performance_option", NUL>>>>

\* C5 as stated: the request is 'get_performance_option' and one NUL, and a
\* response of one integer line, the ACK line and a trailing newline
\* ("33\nACK\n") decodes to that integer.
C5_TrailingNewlineDecodes ==
  (pc # "idle" /\ call.name = "get_performance_option") =>
     /\ PerformanceRequested
     /\ \A it \in IntTexts :
          (pc = "done" /\ data = it.text \o <<LF, "ACK", LF>>)
            => outcome = Return(PyInt(it.val))

\* C5 amended: the request is 'get_performance_option' and one NUL; a
\* response of one integer line followed by the ACK line, with no trailing
\* newline ("33\nACK"), decodes to that integer, and the same response with a
\* trailing newline raises InvalidResponse.
C5_IntegerLineDecodes ==
  (pc # "idle" /\ call.name = "get_performance_option") =>
     /\ PerformanceRequested
     /\ \A it \in IntTexts :
          /\ (pc = "done" /\ data = it.text \o <<LF, "ACK">>)
               => outcome = Return(PyInt(it.val))
          /\ (pc = "done" /\ data = it.text \o <<LF, "ACK", LF>>)
               => outcome = Raise("InvalidResponse")

C5_Witness ==
  /\ pc = "done"
  /\ call.name = "get_performance_option"
  /\ sent = <<<<"get_performance_option", NUL>>>>
  /\ data = <<"3", "3", LF, "ACK">>
  /\ outcome = Return(PyInt(33))

\* the sample rate pairs the server lists, up to MaxLines of them
RateSeqs == SeqsUpTo({<<1200, 500>>, <<2400, 500>>}, MaxLines) \ {<<>>}

\* the response listing the pairs ps, one 'd, a' line each, then ACK
RatesText(ps) ==
  Framed([i \in 1..Len(ps) |-> RateLine(ps[i][1], ps[i][2])], <<"ACK">>)

\* C6: for an ACK response of n >= 1 lines 'd, a', get_available_sample_rates
\* returns the list of exactly n pairs whose i-th pair is the integers (d, a)
\* of the i-th line.
C6_RatesInOrder ==
  (pc = "done" /\ call.name = "get_available_sample_rates") =>
     \A ps \in RateSeqs :
        data = RatesText(ps) =>
          outcome = Return(PyList([i \in 1..Len(ps) |->
                      PyTuple(<<PyInt(ps[i][1]), PyInt(ps[i][2])>>)]))

C6_Witness ==
  /\ pc = "done"
  /\ call.name = "get_available_sample_rates"
  /\ data = <<"1", "2", "0", "0", COMMA, SP, "5", "0", "0", LF,
              "2", "4", "0", "0", COMMA, SP, "5", "0", "0", LF, "ACK">>
  /\ outcome = Return(PyList(<<PyTuple(<<PyInt(1200), PyInt(500)>>),
                               PyTuple(<<PyInt(2400), PyInt(500)>>)>>))

\* C8: on ACK with zero data lines an operation that calls command() with
\* multiline=True gets the empty sequence and returns an empty list.
C8_EmptyMultiline ==
  (pc = "done" /\ Multiline(call.name) /\ data = <<"ACK">>) =>
     outcome = Return(PyList(<<>>))

\* C9: with multiline=False, an ACK response of more than one data line makes
\* the call fail with InvalidResponse, and one of exactly one data line
\* returns that line's fields.
C9_SingleLineExpected ==
  (pc = "done" /\ call.name = "is_processing_complete") =>
     \A ls \in SeqsUpTo(ShortLines, MaxLines) :
        data = Framed(ls, <<"ACK">>) =>
          /\ Len(ls) > 1 => outcome = Raise("InvalidResponse")
          /\ Len(ls) = 1 => outcome = Return(FieldsOf(ls)[1])

IsMarker(t) == t \in {<<"digital_channels">>, <<"analog_channels">>}

\* the marker that most recently precedes position i of ts, <<>> when none
MarkerBefore(ts, i) ==
  LET ms == {j \in 1..(i - 1) : IsMarker(ts[j])}
  IN IF ms = {} THEN <<>> ELSE ts[CHOOSE j \in ms : \A k \in ms : k <= j]

RECURSIVE Under(_, _, _)
\* the integers of ts from position i on whose preceding marker is m, in order
Under(ts, m, i) ==
  IF i > Len(ts) THEN <<>>
  ELSE (IF ~IsMarker(ts[i]) /\ MarkerBefore(ts, i) = m
        THEN <<DigitVal(ts[i][1])>> ELSE <<>>) \o Under(ts, m, i + 1)

\* what get_active_channels made of the response whose one line is ts
ChannelsOf(ts) ==
  (pc = "done" /\ call.name = "get_active_channels"
     /\ data = Framed(<<ChannelLine(ts)>>, <<"ACK">>))
    => outcome = Return(PyDict(Under(ts, <<"digital_channels">>, 1),
                               Under(ts, <<"analog_channels">>, 1)))

DeclaredErrors ==
  {"ArgumentError", "CommandError", "InvalidResponse", "NotImplementedError",
   "UnicodeEncodeError"}

\* the call ended in a result (or no result) or in a declared error kind
DeclaredOutcome ==
  \/ outcome.kind = "return"
  \/ outcome.kind = "raise" /\ outcome.exc \in DeclaredErrors

\* C11: every call ends in a result (or no result) or in one of the declared
\* error kinds; stated here for the case the claim singles out: a call whose
\* request was sent and which read a response that ends in ACK never ends in
\* another failure, raised while decoding.
C11_DeclaredOutcomesOnly ==
  (pc = "done" /\ sent # <<>> /\ IsAscii(data) /\ EndsInToken(data, "ACK"))
    => DeclaredOutcome

\* ---------------------------------------------------------------------------
\* C12

\* the operations that pass their one argument, a path, on to command()
PathOperations == {"capture_to_file", "save_to_file", "load_from_file", "export_data"}

\* the text of every value of the list xs
Texts(xs) == [i \in 1..Len(xs) |-> Str(xs[i])]

\* the fields command() was called with: the command name and the arguments
FieldsSent ==
  IF call.name \in PathOperations THEN <<<<call.name>>, Str(call.args[1])>>
  ELSE <<<<"set_active_channels">>, <<"digital_channels">>>>
         \o Texts(call.args[1].v)
         \o <<<<"analog_channels">>>> \o Texts(call.args[2].v)

\* C12: every request written to the socket is the command name and the text
\* of each argument joined by single commas and followed by one NUL, its last
\* byte; no field contains a comma or a NUL, so that splitting the text before
\* the NUL on ',' yields exactly the name followed by the arguments.  Stated
\* for the operations that take a path and for set_active_channels.
C12_RequestSplitsIntoFields ==
  (sent # <<>> /\ call.name \in PathOperations \cup {"set_active_channels"}) =>
    LET s == sent[1]
        text == SubSeq(s, 1, Len(s) - 1)
    IN /\ s = Join(<<COMMA>>, FieldsSent) \o <<NUL>>
       /\ \A i \in 1..Len(text) : text[i] # NUL
       /\ Split(text, <<COMMA>>) = FieldsSent

\* ---------------------------------------------------------------------------
\* C13

\* both threads are inside a call that has written its request
TwoOutstanding == sent # <<>> /\ other[3] # <<>>

\* one of the threads has read bytes that answer a request of another call
DecodesForeign == alien \/ other[7]

\* the first half of C13: without serialization two requests are outstanding
\* and one caller has read bytes of the response to the other's request
C13_Race == TwoOutstanding /\ alien /\ pc = "done"

\* C13: when every call is made holding one mutex for the whole call, two
\* requests are never outstanding and every call decodes the response to its
\* own request, never bytes that answer another call's request.
C13_MutexSerializes == ~TwoOutstanding /\ ~DecodesForeign

\* ---------------------------------------------------------------------------
\* C14

\* C14: in every state of the client a call of get_inputs fails at once with
\* NotImplementedError (UnsupportedOperationError): it writes no request, the
\* server has no more to answer than before, and it reads nothing.
C14_GetInputsUnsupported ==
  [][(pc = "idle" /\ call'.name = "get_inputs") =>
       /\ pc' = "done"
       /\ outcome' = Raise("NotImplementedError")
       /\ sent' = <<>>
       /\ nrecv' = 0
       /\ UNCHANGED <<pending, owners, wire, srv, tags>>]_vars

\* get_inputs has failed while bytes of an earlier response lay unread
C14_Witness ==
  /\ pc = "done"
  /\ call.name = "get_inputs"
  /\ outcome = Raise("NotImplementedError")
  /\ sent = <<>>
  /\ wire # <<>>

\* ---------------------------------------------------------------------------
\* C15

\* C15: with one sequential caller at most one request is in flight: a request
\* is written only when the response to every earlier request has been
\* consumed completely, so that no call reads bytes left over from the
\* response to an earlier request.
C15_OneRequestInFlight ==
  /\ pc = "recv" => (pending + (IF wire \o srv = <<>> THEN 0 ELSE 1) <= 1)
  /\ ~alien

\* ---------------------------------------------------------------------------
\* C16

\* the call waits in recv and no byte is on its way
Blocked == pc = "recv" /\ Quiet

\* the response of the call has length n * 1024 for an n >= 1
ExactMultiple == reply # <<>> /\ ByteLen(reply) % RecvSize = 0

\* no atom of the model straddles the end of a chunk: recv(1024) returns
\* whole atoms
Aligned ==
  ByteLen(wire) >= RecvSize => ByteLen(TakeBytes(wire, RecvSize)) = RecvSize

LoopEndsAtShortRead ==
  /\ (pc = "recv" /\ nrecv > 0) => ByteLen(data) = nrecv * RecvSize
  /\ (pc = "done" /\ nrecv > 0) =>
        (ByteLen(data) - (nrecv - 1) * RecvSize) \in 1..(RecvSize - 1)
  /\ Blocked => (nrecv > 0 /\ data = reply /\ ExactMultiple /\ ~ENABLED NextLong)
  /\ (pc = "recv" /\ nrecv > 0 /\ data = reply) => Blocked

C17_ResetRepeatable ==
  /\ client = NewClient
  /\ call.name = "reset_active_channels" =>
       /\ sent = <<<<"reset_active_channels", NUL>>>>
       /\ (pc = "done" /\ data = <<"ACK">>) => outcome = Return(PyNone)

\* a second reset_active_channels in a row has returned no result on ACK
C17_Witness ==
  /\ repeats = 1
  /\ pc = "done"
  /\ call.name = "reset_active_channels"
  /\ sent = <<<<"reset_active_channels", NUL>>>>
  /\ reply = <<"ACK">>
  /\ data = <<"ACK">>
  /\ outcome = Return(PyNone)
  /\ client = NewClient

\* ---------------------------------------------------------------------------
\* C18

\* pipe_result was set in the current call of export_analyzers
PipeRequested == call.args[3] # PyInt(0)

\* the request of the current call of export_analyzers has the third argument
\* exactly when pipe_result is set
ExtraArgumentIffPiped ==
  sent[1] = <<"export_analyzers", COMMA>> \o Str(call.args[1]) \o <<COMMA>>
              \o Str(call.args[2])
              \o (IF PipeRequested THEN <<COMMA, "extra_parameter">> ELSE <<>>)
              \o <<NUL>>

\* on the ACK response with the data lines ls the call returns the fields of
\* every line when pipe_result is set and nothing when it is not
LinesIffPiped(ls) ==
  (pc = "done" /\ data = Framed(ls, <<"ACK">>)) =>
     outcome = IF PipeRequested THEN Return(PyList(FieldsOf(ls)))
               ELSE Return(PyNone)

\* C18: export_analyzers sends the extra third argument if and only if
\* pipe_result is set, and returns the data lines of the ACK response, as a
\* list of lines, if and only if pipe_result is set; without pipe_result it
\* returns no result whatever data lines the response carries.
C18_PipedResult ==
  (call.name = "export_analyzers" /\ sent # <<>>) =>
     /\ ExtraArgumentIffPiped
     /\ \A ls \in LineSeqs : LinesIffPiped(ls)

\* the same for responses of at least one data line, and no result without
\* pipe_result on every response that ends in ACK
C18_PipedLines ==
  (call.name = "export_analyzers" /\ sent # <<>>) =>
     /\ ExtraArgumentIffPiped
     /\ \A ls \in LineSeqs \ {<<>>} : LinesIffPiped(ls)
     /\ (pc = "done" /\ ~PipeRequested /\ IsAscii(data) /\ EndsInToken(data, "ACK"))
          => outcome = Return(PyNone)

====
